---- MODULE Spec2Model ----
(***************************************************************************)
(* Membership governance of the refref portal                              *)
(* (apps/portal/src/server/api/routers/project-members.ts), its program    *)
(* setup page (programs/[id]/page.tsx) and its reward form (RewardStep.tsx).*)
(*                                                                         *)
(* One project is modelled: its membership rows (projectUser), its pending *)
(* invitation rows (invitation), and the requests made on it.  Spec runs   *)
(* every router procedure as one atomic step; SpecRoles runs changeRole    *)
(* and remove alone and remembers what the previous call granted; SpecConc *)
(* runs changeRole and remove as the sequence of awaited database reads    *)
(* and provider calls the code performs, for two requests in flight.       *)
(* SpecPage runs the handlers of the setup page of one program, SpecReward *)
(* the changes and submissions of the reward form.                         *)
(***************************************************************************)
EXTENDS Integers, FiniteSets, Sequences, TLC

\* ---------------------------------------------------------------- bounds
NumUsers == 3
MaxInvitations == 1

\* ------------------------------------------------------------ vocabulary
Users == 1..NumUsers
NoUser == 0
Roles == {"owner", "admin", "member"}
NoRole == "none"
InvIds == 1..MaxInvitations
NoInv == 0

\* The request context built by protectedProcedure: ctx.userId and
\* ctx.activeProjectId, either of which may be absent.
Contexts == [userId : Users \cup {NoUser}, activeProjectId : BOOLEAN]

\* The contexts of a signed-in caller with an active project.
SignedIn == {c \in Contexts : c.activeProjectId /\ c.userId # NoUser}

VARIABLES
    members,      \* projectUser rows of the project: user -> role, NoRole = no row
    invitations,  \* pending invitation rows: id -> invited role, NoRole = no row
    last,         \* the call just served and the rows it found (NoCall between calls)
    prior,        \* SpecRoles: what the call before it granted (history)
    reqs,         \* SpecConc: the two requests in flight
    page,         \* SpecPage: the program setup page (programs/[id]/page.tsx)
    form          \* SpecReward: the reward form (RewardStep.tsx)

vars == <<members, invitations, last, prior, reqs, page, form>>

\* ------------------------------------------------------- pure functions
\* ctx.projectUserRole: the caller's role in the active project, absent
\* when there is no active project, no caller or no membership row.
ProjectUserRole(m, ctx) ==
    IF ctx.activeProjectId /\ ctx.userId # NoUser THEN m[ctx.userId] ELSE NoRole

GetProjectMemberCounts(m) ==
    [total  |-> Cardinality({u \in Users : m[u] # NoRole}),
     owners |-> Cardinality({u \in Users : m[u] = "owner"}),
     admins |-> Cardinality({u \in Users : m[u] = "admin"})]

\* if (!ctx.activeProjectId || !ctx.userId) throw BAD_REQUEST
ContextGuard(ctx) ==
    IF ~ctx.activeProjectId \/ ctx.userId = NoUser THEN "BAD_REQUEST" ELSE "ok"

\* validateRoleChange / validateMemberRemoval: the caller's membership row
CallerGuard(cur) ==
    IF cur = NoRole THEN "FORBIDDEN"
    ELSE IF cur = "member" THEN "FORBIDDEN"
    ELSE "ok"

\* Mutant: the target's membership row is not looked at.
TargetGuard_Missing(tgt) == "ok"

\* validateRoleChange / validateMemberRemoval: the target's membership row
TargetGuard(tgt) ==
    IF tgt = NoRole THEN "NOT_FOUND" ELSE "ok"

\* Mutant: the last-owner check is missing.
RoleFloorGuard_NoOwnerFloor(tgt, counts, newRole) ==
    IF tgt = "admin" /\ counts.admins = 1 /\ counts.owners = 0
       /\ newRole = "member" THEN "BAD_REQUEST"
    ELSE "ok"

\* Mutant: the last-admin check forgets to ask whether an owner exists.
RoleFloorGuard_AdminFloorAnyOwners(tgt, counts, newRole) ==
    IF tgt = "owner" /\ counts.owners = 1 /\ newRole # "owner" THEN "BAD_REQUEST"
    ELSE IF tgt = "admin" /\ counts.admins = 1 /\ newRole = "member"
         THEN "BAD_REQUEST"
    ELSE "ok"

\* Mutant: the last-owner check is off by one.
RoleFloorGuard_OwnerFloorOffByOne(tgt, counts, newRole) ==
    IF tgt = "owner" /\ counts.owners <= 2 /\ newRole # "owner" THEN "BAD_REQUEST"
    ELSE IF tgt = "admin" /\ counts.admins = 1 /\ counts.owners = 0
            /\ newRole = "member" THEN "BAD_REQUEST"
    ELSE "ok"

\* validateRoleChange: last owner, then last admin without owners
RoleFloorGuard(tgt, counts, newRole) ==
    IF tgt = "owner" /\ counts.owners = 1 /\ newRole # "owner" THEN "BAD_REQUEST"
    ELSE IF tgt = "admin" /\ counts.admins = 1 /\ counts.owners = 0
            /\ newRole = "member" THEN "BAD_REQUEST"
    ELSE "ok"

\* Mutant: the owner grant is refused to members only.
OwnerGrantGuard_AdminsToo(cur, newRole) ==
    IF newRole = "owner" /\ cur = "member" THEN "FORBIDDEN" ELSE "ok"

\* validateRoleChange: only owners can promote to owner
OwnerGrantGuard(cur, newRole) ==
    IF newRole = "owner" /\ cur # "owner" THEN "FORBIDDEN" ELSE "ok"

\* Mutant: the last-owner check is missing.
RemovalFloorGuard_NoOwnerFloor(tgt, counts) ==
    IF counts.total = 1 THEN "BAD_REQUEST"
    ELSE IF tgt = "admin" /\ counts.admins = 1 /\ counts.owners = 0 THEN "BAD_REQUEST"
    ELSE "ok"

\* validateMemberRemoval: last member, last owner, last admin without owners
RemovalFloorGuard(tgt, counts) ==
    IF counts.total = 1 THEN "BAD_REQUEST"
    ELSE IF tgt = "owner" /\ counts.owners = 1 THEN "BAD_REQUEST"
    ELSE IF tgt = "admin" /\ counts.admins = 1 /\ counts.owners = 0 THEN "BAD_REQUEST"
    ELSE "ok"

\* Mutant: an admin may not change the role of an owner.
RoleChangeChecks_RankCompared(cur, tgt, counts, newRole) ==
    IF CallerGuard(cur) # "ok" THEN CallerGuard(cur)
    ELSE IF TargetGuard(tgt) # "ok" THEN TargetGuard(tgt)
    ELSE IF cur = "admin" /\ tgt = "owner" THEN "FORBIDDEN"
    ELSE IF RoleFloorGuard(tgt, counts, newRole) # "ok"
         THEN RoleFloorGuard(tgt, counts, newRole)
    ELSE OwnerGrantGuard(cur, newRole)

\* The guards on the rows and counts a request has read, in the code's order.
RoleChangeChecks(cur, tgt, counts, newRole) ==
    IF CallerGuard(cur) # "ok" THEN CallerGuard(cur)
    ELSE IF TargetGuard(tgt) # "ok" THEN TargetGuard(tgt)
    ELSE IF RoleFloorGuard(tgt, counts, newRole) # "ok"
         THEN RoleFloorGuard(tgt, counts, newRole)
    ELSE OwnerGrantGuard(cur, newRole)

\* Mutant: the removal is validated against the caller and target rows only.
RemovalChecks_NoFloors(cur, tgt, counts) ==
    IF CallerGuard(cur) # "ok" THEN CallerGuard(cur)
    ELSE TargetGuard(tgt)

RemovalChecks(cur, tgt, counts) ==
    IF CallerGuard(cur) # "ok" THEN CallerGuard(cur)
    ELSE IF TargetGuard(tgt) # "ok" THEN TargetGuard(tgt)
    ELSE RemovalFloorGuard(tgt, counts)

ValidateRoleChange(m, userId, newRole, currentUserId) ==
    RoleChangeChecks(m[currentUserId], m[userId], GetProjectMemberCounts(m), newRole)

ValidateMemberRemoval(m, userIdToRemove, currentUserId) ==
    RemovalChecks(m[currentUserId], m[userIdToRemove], GetProjectMemberCounts(m))

\* Mutant: the check that keeps admins from inviting owners is missing.
InviteGuard_AdminInvitesOwner(role, newRole) ==
    IF role = "member" THEN "FORBIDDEN" ELSE "ok"

\* invite / resendInvitation: the two checks on ctx.projectUserRole
InviteGuard(role, newRole) ==
    IF role = "member" THEN "FORBIDDEN"
    ELSE IF role = "admin" /\ newRole = "owner" THEN "FORBIDDEN"
    ELSE "ok"

\* Mutant: cancelInvitation checks no role.
CancelGuard_Missing(role) == "ok"

\* cancelInvitation: the check on ctx.projectUserRole
CancelGuard(role) ==
    IF role = "member" THEN "FORBIDDEN" ELSE "ok"

\* ------------------------------------------------- the identity provider
\* auth.api.updateMemberRole / removeMember: write the membership row.
UpdateMemberRole(m, userId, role) == [m EXCEPT ![userId] = role]
RemoveMember(m, userId) == [m EXCEPT ![userId] = NoRole]

FreeIds(inv) == {i \in InvIds : inv[i] = NoRole}
PendingIds(inv) == {i \in InvIds : inv[i] # NoRole}

\* auth.api.createInvitation: a new pending row under an unused id.
CreateInvitation(inv, role) ==
    LET i == CHOOSE j \in FreeIds(inv) : \A k \in FreeIds(inv) : j <= k
    IN [inv EXCEPT ![i] = role]

\* auth.api.createInvitation with resend: the pending row i is issued again
\* with the requested role.
ReissueInvitation(inv, i, role) == [inv EXCEPT ![i] = role]

\* auth.api.cancelInvitation: the row stops being pending.
CancelInvitationProvider(inv, id) == [inv EXCEPT ![id] = NoRole]

\* ctx.db.delete(invitation).where(eq(invitation.id, input.id))
DeleteInvitationRow(inv, id) == [i \in InvIds |-> IF i = id THEN NoRole ELSE inv[i]]

\* auth.api.acceptInvitation: the caller joins with the invited role and the
\* row stops being pending.
AcceptMember(m, userId, role) == [m EXCEPT ![userId] = role]
AcceptedRow(inv, id) == [inv EXCEPT ![id] = NoRole]

\* What the provider needs to act at all: a signed-in caller, an
\* organisation to invite into, a pending row to cancel or accept, and an
\* invitee who is not yet a member.
ProviderCreates(ctx) == ctx.userId # NoUser /\ ctx.activeProjectId
ProviderCancels(inv, ctx, id) == ctx.userId # NoUser /\ id \in PendingIds(inv)
ProviderAccepts(m, inv, ctx, id) ==
    /\ ctx.userId # NoUser
    /\ id \in PendingIds(inv)
    /\ m[ctx.userId] = NoRole

\* ------------------------------------------------ results of the handlers
\* listMembers: if (!ctx.activeProjectId) throw new TRPCError(BAD_REQUEST)
ListMembersResult(ctx) ==
    IF ~ctx.activeProjectId THEN "BAD_REQUEST" ELSE "ok"

\* listInvitations: if (!ctx.activeProjectId) throw new Error(...), an
\* error that carries no code.
ListInvitationsResult(ctx) ==
    IF ~ctx.activeProjectId THEN "ERROR" ELSE "ok"

InviteResult(m, ctx, role) ==
    IF ContextGuard(ctx) # "ok" THEN ContextGuard(ctx)
    ELSE IF InviteGuard(ProjectUserRole(m, ctx), role) # "ok"
         THEN InviteGuard(ProjectUserRole(m, ctx), role)
    ELSE "ok"

ChangeRoleResult(m, ctx, userId, role) ==
    IF ContextGuard(ctx) # "ok" THEN ContextGuard(ctx)
    ELSE ValidateRoleChange(m, userId, role, ctx.userId)

RemoveResult(m, ctx, userId) ==
    IF ContextGuard(ctx) # "ok" THEN ContextGuard(ctx)
    ELSE ValidateMemberRemoval(m, userId, ctx.userId)

CancelInvitationResult(m, inv, ctx, id) ==
    IF CancelGuard(ProjectUserRole(m, ctx)) # "ok"
    THEN CancelGuard(ProjectUserRole(m, ctx))
    ELSE IF ~ProviderCancels(inv, ctx, id) THEN "PROVIDER_ERROR"
    ELSE "ok"

ResendInvitationResult(m, ctx, role) ==
    IF InviteGuard(ProjectUserRole(m, ctx), role) # "ok"
    THEN InviteGuard(ProjectUserRole(m, ctx), role)
    ELSE IF ~ProviderCreates(ctx) THEN "PROVIDER_ERROR"
    ELSE "ok"

AcceptInvitationResult(m, inv, ctx, id) ==
    IF ~ProviderAccepts(m, inv, ctx, id) THEN "PROVIDER_ERROR" ELSE "ok"

\* ---------------------------------------------- messages of the failures
\* validateRoleChange: the message of the TRPCError it throws, "none" when
\* it returns.
RoleChangeMessage(cur, tgt, counts, newRole) ==
    IF cur = NoRole THEN "You are not a member of this project"
    ELSE IF cur = "member" THEN "You don't have permission to change roles"
    ELSE IF tgt = NoRole THEN "User is not a member of this project"
    ELSE IF tgt = "owner" /\ counts.owners = 1 /\ newRole # "owner"
         THEN "Cannot demote the last owner. Promote another member to owner first."
    ELSE IF tgt = "admin" /\ counts.admins = 1 /\ counts.owners = 0
            /\ newRole = "member"
         THEN "Cannot demote the last admin when there are no owners."
    ELSE IF newRole = "owner" /\ cur # "owner"
         THEN "Only owners can promote members to owner role"
    ELSE "none"

\* Mutant: the last-owner check comes before the last-member check.
RemovalMessage_OwnerFloorFirst(cur, tgt, counts) ==
    IF cur = NoRole THEN "You are not a member of this project"
    ELSE IF cur = "member" THEN "You don't have permission to remove members"
    ELSE IF tgt = NoRole THEN "User is not a member of this project"
    ELSE IF tgt = "owner" /\ counts.owners = 1
         THEN "Cannot remove the last owner. Promote another member to owner first."
    ELSE IF counts.total = 1 THEN "Cannot remove the last member of the project"
    ELSE IF tgt = "admin" /\ counts.admins = 1 /\ counts.owners = 0
         THEN "Cannot remove the last admin when there are no owners."
    ELSE "none"

\* validateMemberRemoval: the message of the TRPCError it throws.
RemovalMessage(cur, tgt, counts) ==
    IF cur = NoRole THEN "You are not a member of this project"
    ELSE IF cur = "member" THEN "You don't have permission to remove members"
    ELSE IF tgt = NoRole THEN "User is not a member of this project"
    ELSE IF counts.total = 1 THEN "Cannot remove the last member of the project"
    ELSE IF tgt = "owner" /\ counts.owners = 1
         THEN "Cannot remove the last owner. Promote another member to owner first."
    ELSE IF tgt = "admin" /\ counts.admins = 1 /\ counts.owners = 0
         THEN "Cannot remove the last admin when there are no owners."
    ELSE "none"

\* changeRole / remove: the message of the failure the handler ends with.
ChangeRoleMessage(m, ctx, userId, role) ==
    IF ~ctx.activeProjectId \/ ctx.userId = NoUser THEN "No active project or user"
    ELSE RoleChangeMessage(m[ctx.userId], m[userId], GetProjectMemberCounts(m), role)

RemoveMessage(m, ctx, userId) ==
    IF ~ctx.activeProjectId \/ ctx.userId = NoUser THEN "No active project or user"
    ELSE RemovalMessage(m[ctx.userId], m[userId], GetProjectMemberCounts(m))

\* ------------------------------------------------------------- history
NoCall ==
    [op |-> "none", ctx |-> [userId |-> NoUser, activeProjectId |-> FALSE],
     userId |-> NoUser, role |-> NoRole, id |-> NoInv, result |-> "none",
     message |-> "none",
     members |-> [u \in Users |-> NoRole], invitations |-> [i \in InvIds |-> NoRole]]

\* The call being served, with the rows as they were when it arrived; the
\* message of its failure is kept for changeRole and remove.
Log(op, ctx, userId, role, id, result) ==
    [op |-> op, ctx |-> ctx, userId |-> userId, role |-> role, id |-> id,
     result |-> result, message |-> "none",
     members |-> members, invitations |-> invitations]

NoPrior == [kind |-> "none", user |-> NoUser]

\* What a served changeRole granted: a second owner beside a sole owner, or
\* a second admin beside the sole admin of a project without owners.
Granted(l) ==
    LET c == GetProjectMemberCounts(l.members) IN
    IF l.op # "changeRole" \/ l.result # "ok" \/ l.members[l.userId] = l.role
    THEN NoPrior
    ELSE IF l.role = "owner" /\ c.owners = 1
         THEN [kind |-> "second_owner", user |-> l.userId]
    ELSE IF l.role = "admin" /\ c.owners = 0 /\ c.admins = 1
         THEN [kind |-> "second_admin", user |-> l.userId]
    ELSE NoPrior

\* ---------------------------------------------------- requests in flight
Slots == {"r1", "r2"}
NoCounts == [total |-> 0, owners |-> 0, admins |-> 0]

\* A request: its input, the handler's position (pc), the rows and counts it
\* has read so far (cur, tgt, counts), its result, and the counts of the
\* project at the moment its mutation was applied (applied).
IdleReq ==
    [pc |-> "idle", op |-> "none",
     userId |-> NoUser, role |-> NoRole,
     cur |-> NoRole, tgt |-> NoRole, counts |-> NoCounts,
     result |-> "none", applied |-> NoCounts]

\* ------------------------------------------------ the program setup page
\* programs/[id]/page.tsx.  program.setup.steps is an ordered list of steps
\* with an id and the flags isRequired and isComplete; the URL's ?step=
\* parameter selects the panel.
MaxSteps == 3

StepNames == {"design", "rewards", "notifications", "installation"}

\* searchParams.get("step") ?? null, and a value that names no panel.
NoStep == "null"
OtherStep == "other"
StepParams == StepNames \cup {NoStep, OtherStep}

SetupSteps == [id : StepNames, isRequired : BOOLEAN, isComplete : BOOLEAN]

\* The step lists of at most MaxSteps steps, no id twice.
StepLists ==
    {l \in UNION {[1..n -> SetupSteps] : n \in 0..MaxSteps} :
        \A i, j \in DOMAIN l : l[i].id = l[j].id => i = j}

IsPending(s) == s.isRequired /\ ~s.isComplete
IsRequired(s) == s.isRequired

\* Mutant: every incomplete step is counted, required or not.
PendingSteps_CountsOptional(steps) ==
    Len(SelectSeq(steps, LAMBDA s : ~s.isComplete))

\* steps.filter((step) => step.isRequired && !step.isComplete).length
PendingSteps(steps) == Len(SelectSeq(steps, IsPending))

\* steps.filter((step) => step.isRequired).every((step) => step.isComplete)
AllRequiredComplete(steps) ==
    LET required == SelectSeq(steps, IsRequired)
    IN \A i \in 1..Len(required) : required[i].isComplete

\* canProceedToStep (@/lib/program): walking the list in order, a required
\* step that is not complete bars every step after it.
RECURSIVE CanProceedFrom(_, _, _)
CanProceedFrom(i, stepId, steps) ==
    IF i > Len(steps) THEN TRUE
    ELSE IF steps[i].id = stepId THEN TRUE
    ELSE IF steps[i].isRequired /\ ~steps[i].isComplete THEN FALSE
    ELSE CanProceedFrom(i + 1, stepId, steps)

CanProceedToStep(stepId, steps) == CanProceedFrom(1, stepId, steps)

\* The panel the page renders for the step parameter: a panel per known
\* step, Installation also without a parameter, none for any other value.
NoPanel == "none"
Panel(step) ==
    IF step = "design" THEN "design"
    ELSE IF step = "rewards" THEN "rewards"
    ELSE IF step = "notifications" THEN "notifications"
    ELSE IF step = "installation" \/ step = NoStep THEN "installation"
    ELSE NoPanel

\* Completing a step's configuration sets its isComplete flag.
MarkComplete(steps, stepId) ==
    [i \in DOMAIN steps |->
        IF steps[i].id = stepId THEN [steps[i] EXCEPT !.isComplete = TRUE]
        ELSE steps[i]]

NoPageCall == [op |-> "none", stepId |-> NoStep, step |-> NoStep]

\* The handler that ran, its argument, and the step parameter it found.
PageLog(op, stepId) == [op |-> op, stepId |-> stepId, step |-> page.step]

NoPage ==
    [loaded |-> FALSE, steps |-> <<>>, step |-> NoStep, live |-> FALSE,
     call |-> NoPageCall]

\* ------------------------------------------------------ the reward form
\* setup/_components/RewardStep.tsx.  The values a field can be given.
ValueTypes == {"fixed", "percentage"}
Currencies == {"USD", "EUR"}
Values == {0, 1, 10, 20, 100, 101, 150}
NoAmount == -1
Amounts == {NoAmount, 50}
Days == {0, 1, 30, 365, 366}

Sides == {"referrerReward", "refereeReward"}
Fields(side) ==
    IF side = "referrerReward" THEN {"enabled", "valueType", "value", "currency"}
    ELSE {"enabled", "valueType", "value", "currency", "minPurchaseAmount",
          "validityDays"}

FieldValues(field) ==
    IF field = "enabled" THEN BOOLEAN
    ELSE IF field = "valueType" THEN ValueTypes
    ELSE IF field = "value" THEN Values
    ELSE IF field = "currency" THEN Currencies
    ELSE IF field = "minPurchaseAmount" THEN Amounts
    ELSE Days

DEFAULTS ==
    [referrerReward |->
        [enabled |-> TRUE, valueType |-> "fixed", value |-> 10, currency |-> "USD"],
     refereeReward |->
        [enabled |-> TRUE, valueType |-> "percentage", value |-> 20,
         currency |-> "USD", minPurchaseAmount |-> 50, validityDays |-> 30]]

\* programTemplateRewardStepSchemaV2 (@refref/types): a percentage lies in
\* 1..100, a fixed amount is positive, the validity window lies in 1..365
\* days; a side that is not enabled is not looked at.
ValueInRange(valueType, value) ==
    IF valueType = "percentage" THEN value >= 1 /\ value <= 100 ELSE value > 0

ProgramTemplateRewardStepSchemaV2(value) ==
    /\ value.referrerReward.enabled =>
          ValueInRange(value.referrerReward.valueType, value.referrerReward.value)
    /\ value.refereeReward.enabled =>
          /\ ValueInRange(value.refereeReward.valueType, value.refereeReward.value)
          /\ value.refereeReward.validityDays >= 1
          /\ value.refereeReward.validityDays <= 365

\* Mutant: the value of a side that is not enabled is left at zero.
RewardConfig_DisabledZeroed(value) ==
    [referrer |->
        [type |-> "cash",
         valueType |-> value.referrerReward.valueType,
         value |-> IF value.referrerReward.enabled THEN value.referrerReward.value
                   ELSE 0,
         currency |-> value.referrerReward.currency],
     referee |->
        [type |-> "discount",
         valueType |-> value.refereeReward.valueType,
         value |-> IF value.refereeReward.enabled THEN value.refereeReward.value
                   ELSE 0,
         currency |-> value.refereeReward.currency,
         minPurchaseAmount |-> value.refereeReward.minPurchaseAmount,
         validityDays |-> value.refereeReward.validityDays]]

\* const rewardConfig = { referrer: {...}, referee: {...} }
RewardConfig(value) ==
    [referrer |->
        [type |-> "cash",
         valueType |-> value.referrerReward.valueType,
         value |-> value.referrerReward.value,
         currency |-> value.referrerReward.currency],
     referee |->
        [type |-> "discount",
         valueType |-> value.refereeReward.valueType,
         value |-> value.refereeReward.value,
         currency |-> value.refereeReward.currency,
         minPurchaseAmount |-> value.refereeReward.minPurchaseAmount,
         validityDays |-> value.refereeReward.validityDays]]

\* What submitForm gave: nothing yet, a thrown Error, undefined, or a
\* reward configuration.
NoConfig == [referrer |-> "none", referee |-> "none"]
NotSubmitted == [kind |-> "none", config |-> NoConfig]
Thrown == [kind |-> "error", config |-> NoConfig]
Undefined == [kind |-> "undefined", config |-> NoConfig]
Returned(config) == [kind |-> "config", config |-> config]

NoForm == [values |-> DEFAULTS, result |-> NotSubmitted]

\* ------------------------------------------------------------------ Init
Init ==
    /\ members \in {m \in [Users -> Roles \cup {NoRole}] :
                        \E u \in Users : m[u] \in {"owner", "admin"}}
    /\ invitations = [i \in InvIds |-> NoRole]
    /\ last = NoCall
    /\ prior = NoPrior
    /\ reqs = [s \in Slots |-> IdleReq]
    /\ page = NoPage
    /\ form = NoForm

\* ------------------------------------------- the procedures, one at a time
\* The two queries read the rows and write nothing.
ListMembers(ctx) ==
    /\ last = NoCall
    /\ last' = Log("listMembers", ctx, NoUser, NoRole, NoInv, ListMembersResult(ctx))
    /\ UNCHANGED <<members, invitations, prior, reqs, page, form>>

ListInvitations(ctx) ==
    /\ last = NoCall
    /\ last' = Log("listInvitations", ctx, NoUser, NoRole, NoInv,
                   ListInvitationsResult(ctx))
    /\ UNCHANGED <<members, invitations, prior, reqs, page, form>>

Invite(ctx, role) ==
    LET res == InviteResult(members, ctx, role) IN
    /\ last = NoCall
    /\ res = "ok" => ProviderCreates(ctx) /\ FreeIds(invitations) # {}
    /\ invitations' = IF res = "ok" THEN CreateInvitation(invitations, role)
                      ELSE invitations
    /\ last' = Log("invite", ctx, NoUser, role, NoInv, res)
    /\ UNCHANGED <<members, prior, reqs, page, form>>

ChangeRole(ctx, userId, role) ==
    LET res == ChangeRoleResult(members, ctx, userId, role) IN
    /\ last = NoCall
    /\ members' = IF res = "ok" THEN UpdateMemberRole(members, userId, role)
                  ELSE members
    /\ last' = [Log("changeRole", ctx, userId, role, NoInv, res)
                   EXCEPT !.message = ChangeRoleMessage(members, ctx, userId, role)]
    /\ UNCHANGED <<invitations, prior, reqs, page, form>>

\* Mutant: the provider is called before the removal is validated.
Remove_BeforeValidation(ctx, userId) ==
    LET res == RemoveResult(members, ctx, userId) IN
    /\ last = NoCall
    /\ members' = IF ContextGuard(ctx) = "ok" THEN RemoveMember(members, userId)
                  ELSE members
    /\ last' = [Log("remove", ctx, userId, NoRole, NoInv, res)
                   EXCEPT !.message = RemoveMessage(members, ctx, userId)]
    /\ UNCHANGED <<invitations, prior, reqs, page, form>>

Remove(ctx, userId) ==
    LET res == RemoveResult(members, ctx, userId) IN
    /\ last = NoCall
    /\ members' = IF res = "ok" THEN RemoveMember(members, userId) ELSE members
    /\ last' = [Log("remove", ctx, userId, NoRole, NoInv, res)
                   EXCEPT !.message = RemoveMessage(members, ctx, userId)]
    /\ UNCHANGED <<invitations, prior, reqs, page, form>>

CancelInvitation(ctx, id) ==
    LET res == CancelInvitationResult(members, invitations, ctx, id) IN
    /\ last = NoCall
    /\ invitations' =
          IF res = "ok"
          THEN DeleteInvitationRow(CancelInvitationProvider(invitations, id), id)
          ELSE invitations
    /\ last' = Log("cancelInvitation", ctx, NoUser, NoRole, id, res)
    /\ UNCHANGED <<members, prior, reqs, page, form>>

\* The provider issues the pending invitation again when there is one (id),
\* and creates one otherwise (id = NoInv).
ResendInvitation(ctx, role, id) ==
    LET res == ResendInvitationResult(members, ctx, role) IN
    /\ last = NoCall
    /\ IF res = "ok"
       THEN \/ id \in PendingIds(invitations)
            \/ id = NoInv /\ PendingIds(invitations) = {} /\ FreeIds(invitations) # {}
       ELSE id = NoInv
    /\ invitations' =
          IF res # "ok" THEN invitations
          ELSE IF id = NoInv THEN CreateInvitation(invitations, role)
          ELSE ReissueInvitation(invitations, id, role)
    /\ last' = Log("resendInvitation", ctx, NoUser, role, id, res)
    /\ UNCHANGED <<members, prior, reqs, page, form>>

AcceptInvitation(ctx, id) ==
    LET res == AcceptInvitationResult(members, invitations, ctx, id) IN
    /\ last = NoCall
    /\ members' = IF res = "ok"
                  THEN AcceptMember(members, ctx.userId, invitations[id])
                  ELSE members
    /\ invitations' = IF res = "ok" THEN AcceptedRow(invitations, id) ELSE invitations
    /\ last' = Log("acceptInvitation", ctx, NoUser, NoRole, id, res)
    /\ UNCHANGED <<prior, reqs, page, form>>

\* The response goes back to the client; the next request can be served.
Return ==
    /\ last # NoCall
    /\ last' = NoCall
    /\ UNCHANGED <<members, invitations, prior, reqs, page, form>>

\* The same, keeping what the call granted for the call that follows.
ReturnRecorded ==
    /\ last # NoCall
    /\ last' = NoCall
    /\ prior' = Granted(last)
    /\ UNCHANGED <<members, invitations, reqs, page, form>>

Next ==
    \/ \E ctx \in Contexts : ListMembers(ctx)
    \/ \E ctx \in Contexts : ListInvitations(ctx)
    \/ \E ctx \in Contexts, role \in Roles : Invite(ctx, role)
    \/ \E ctx \in Contexts, userId \in Users, role \in Roles : ChangeRole(ctx, userId, role)
    \/ \E ctx \in Contexts, userId \in Users : Remove(ctx, userId)
    \/ \E ctx \in Contexts, id \in InvIds \cup {NoInv} : CancelInvitation(ctx, id)
    \/ \E ctx \in Contexts, role \in Roles, id \in InvIds \cup {NoInv} :
          ResendInvitation(ctx, role, id)
    \/ \E ctx \in Contexts, id \in InvIds \cup {NoInv} : AcceptInvitation(ctx, id)
    \/ Return

Spec == Init /\ [][Next]_vars

\* changeRole and remove alone, one at a time, with the history of the
\* previous call.
NextRoles ==
    \/ \E ctx \in Contexts, userId \in Users, role \in Roles : ChangeRole(ctx, userId, role)
    \/ \E ctx \in Contexts, userId \in Users : Remove(ctx, userId)
    \/ ReturnRecorded

SpecRoles == Init /\ [][NextRoles]_vars

\* ------------------------- changeRole and remove, one awaited call at a time
Done(r, result) == [r EXCEPT !.pc = "done", !.result = result]

\* The handler starts: if (!ctx.activeProjectId || !ctx.userId) throw; then
\* await db.select() of the caller's membership row, and its two guards.
\* The context check touches nothing shared, so it is one step with the
\* first read; ctx.userId is not read again after it, and the request keeps
\* the row.  Two requests are followed, r1 being the one that arrives first.
Begin(s, op, ctx, userId, role) ==
    /\ reqs[s].pc = "idle"
    /\ s = "r2" => reqs["r1"].pc # "idle"
    /\ op = "remove" => role = NoRole
    /\ op = "changeRole" => role \in Roles
    /\ LET r == [IdleReq EXCEPT !.op = op, !.userId = userId, !.role = role,
                                 !.cur = IF ctx.userId \in Users
                                         THEN members[ctx.userId] ELSE NoRole]
       IN reqs' = [reqs EXCEPT ![s] =
                      IF ContextGuard(ctx) # "ok" THEN Done(r, ContextGuard(ctx))
                      ELSE IF CallerGuard(r.cur) # "ok" THEN Done(r, CallerGuard(r.cur))
                      ELSE [r EXCEPT !.pc = "readTarget"]]
    /\ UNCHANGED <<members, invitations, last, prior, page, form>>

\* await db.select() of the target's membership row, and its guard.
ReadTarget(s) ==
    /\ reqs[s].pc = "readTarget"
    /\ LET r == [reqs[s] EXCEPT !.tgt = members[reqs[s].userId]]
       IN reqs' = [reqs EXCEPT ![s] =
                      IF TargetGuard(r.tgt) # "ok" THEN Done(r, TargetGuard(r.tgt))
                      ELSE [r EXCEPT !.pc = "readCounts"]]
    /\ UNCHANGED <<members, invitations, last, prior, page, form>>

\* await getProjectMemberCounts(), and the guards on the counts.
ReadCounts(s) ==
    /\ reqs[s].pc = "readCounts"
    /\ LET r == [reqs[s] EXCEPT !.counts = GetProjectMemberCounts(members)]
           g == IF r.op = "changeRole"
                THEN RoleChangeChecks(r.cur, r.tgt, r.counts, r.role)
                ELSE RemovalChecks(r.cur, r.tgt, r.counts)
       IN reqs' = [reqs EXCEPT ![s] =
                      IF g # "ok" THEN Done(r, g) ELSE [r EXCEPT !.pc = "apply"]]
    /\ UNCHANGED <<members, invitations, last, prior, page, form>>

\* await auth.api.updateMemberRole() / removeMember(): the provider writes
\* the row if it is still there.
Apply(s) ==
    LET r == reqs[s]
        there == members[r.userId] # NoRole
    IN
    /\ r.pc = "apply"
    /\ members' = IF ~there THEN members
                  ELSE IF r.op = "changeRole"
                       THEN UpdateMemberRole(members, r.userId, r.role)
                  ELSE RemoveMember(members, r.userId)
    /\ reqs' = [reqs EXCEPT ![s] =
                   [Done(r, IF there THEN "ok" ELSE "PROVIDER_ERROR")
                       EXCEPT !.applied = GetProjectMemberCounts(members)]]
    /\ UNCHANGED <<invitations, last, prior, page, form>>

NextConc ==
    \/ \E s \in Slots, ctx \in SignedIn, userId \in Users, role \in Roles :
          Begin(s, "changeRole", ctx, userId, role)
    \/ \E s \in Slots, ctx \in SignedIn, userId \in Users :
          Begin(s, "remove", ctx, userId, NoRole)
    \/ \E s \in Slots : ReadTarget(s)
    \/ \E s \in Slots : ReadCounts(s)
    \/ \E s \in Slots : Apply(s)

SpecConc == Init /\ [][NextConc]_vars

\* ------------------------------------- the program setup page, at work
\* The page is opened on any URL, for a program with any step list; the
\* program has not been fetched yet.  The project behind it has one owner.
InitPage ==
    /\ members = [u \in Users |-> IF u = 1 THEN "owner" ELSE NoRole]
    /\ invitations = [i \in InvIds |-> NoRole]
    /\ last = NoCall
    /\ prior = NoPrior
    /\ reqs = [s \in Slots |-> IdleReq]
    /\ form = NoForm
    /\ page \in {[NoPage EXCEPT !.steps = l, !.step = p] :
                    l \in StepLists, p \in StepParams}

\* api.program.getById resolves; the effect on the step parameter runs and
\* changes nothing; the page renders the panel.
ProgramLoaded ==
    /\ ~page.loaded
    /\ page' = [page EXCEPT !.loaded = TRUE, !.call = PageLog("load", page.step)]
    /\ UNCHANGED <<members, invitations, last, prior, reqs, form>>

\* Mutant: the step card navigates without asking canProceedToStep.
HandleStepChange_Ungated(i) ==
    /\ page.loaded /\ page.call = NoPageCall
    /\ i \in 1..Len(page.steps)
    /\ page' = [page EXCEPT !.step = page.steps[i].id,
                            !.call = PageLog("handleStepChange", page.steps[i].id)]
    /\ UNCHANGED <<members, invitations, last, prior, reqs, form>>

\* A click on the card of the i-th step.
HandleStepChange(i) ==
    /\ page.loaded /\ page.call = NoPageCall
    /\ i \in 1..Len(page.steps)
    /\ LET stepId == page.steps[i].id IN
       page' = [page EXCEPT
                   !.step = IF ~CanProceedToStep(stepId, page.steps) THEN page.step
                            ELSE stepId,
                   !.call = PageLog("handleStepChange", stepId)]
    /\ UNCHANGED <<members, invitations, last, prior, reqs, form>>

\* const handleGoLive = () => {};
HandleGoLive ==
    /\ page.loaded /\ page.call = NoPageCall
    /\ page' = [page EXCEPT !.call = PageLog("handleGoLive", NoStep)]
    /\ UNCHANGED <<members, invitations, last, prior, reqs, form>>

\* The panel on display has saved its configuration: its step is complete
\* and the program is fetched again.
HandleStepComplete ==
    /\ page.loaded /\ page.call = NoPageCall
    /\ Panel(page.step) # NoPanel
    /\ page' = [page EXCEPT !.steps = MarkComplete(page.steps, Panel(page.step)),
                            !.call = PageLog("handleStepComplete", Panel(page.step))]
    /\ UNCHANGED <<members, invitations, last, prior, reqs, form>>

\* The handler has returned and the page is rendered again.
PageReturn ==
    /\ page.call # NoPageCall
    /\ page' = [page EXCEPT !.call = NoPageCall]
    /\ UNCHANGED <<members, invitations, last, prior, reqs, form>>

NextPage ==
    \/ ProgramLoaded
    \/ \E i \in 1..MaxSteps : HandleStepChange(i)
    \/ HandleGoLive
    \/ HandleStepComplete
    \/ PageReturn

SpecPage == InitPage /\ [][NextPage]_vars

\* ------------------------------------------------- the reward form, at work
\* The form starts from DEFAULTS.
InitReward ==
    /\ members = [u \in Users |-> IF u = 1 THEN "owner" ELSE NoRole]
    /\ invitations = [i \in InvIds |-> NoRole]
    /\ last = NoCall
    /\ prior = NoPrior
    /\ reqs = [s \in Slots |-> IdleReq]
    /\ page = NoPage
    /\ form = NoForm

\* field.handleChange(v) on one field of one side.
HandleChange(side, field, v) ==
    /\ field \in Fields(side)
    /\ v \in FieldValues(field)
    /\ form' = [values |-> [form.values EXCEPT ![side][field] = v],
                result |-> NotSubmitted]
    /\ UNCHANGED <<members, invitations, last, prior, reqs, page>>

\* Mutant: the form's validity is not looked at.
SubmitForm_SkipsValidation ==
    LET value == form.values IN
    /\ form' = [form EXCEPT !.result =
                   IF value.referrerReward.enabled \/ value.refereeReward.enabled
                   THEN Returned(RewardConfig(value))
                   ELSE Undefined]
    /\ UNCHANGED <<members, invitations, last, prior, reqs, page>>

\* Mutant: the reward configuration is returned whatever is enabled.
SubmitForm_AlwaysConfig ==
    LET value == form.values IN
    /\ form' = [form EXCEPT !.result =
                   IF ~ProgramTemplateRewardStepSchemaV2(value) THEN Thrown
                   ELSE Returned(RewardConfig(value))]
    /\ UNCHANGED <<members, invitations, last, prior, reqs, page>>

\* submitForm: validate, throw if the form is not valid, build the reward
\* configuration, return it if a side is enabled and undefined otherwise.
SubmitForm ==
    LET value == form.values IN
    /\ form' = [form EXCEPT !.result =
                   IF ~ProgramTemplateRewardStepSchemaV2(value) THEN Thrown
                   ELSE IF value.referrerReward.enabled \/ value.refereeReward.enabled
                        THEN Returned(RewardConfig(value))
                   ELSE Undefined]
    /\ UNCHANGED <<members, invitations, last, prior, reqs, page>>

NextReward ==
    \/ \E side \in Sides : \E field \in Fields(side) : \E v \in FieldValues(field) :
          HandleChange(side, field, v)
    \/ SubmitForm

SpecReward == InitReward /\ [][NextReward]_vars

\* ------------------------------------------------- reading the served call
Governance == {"invite", "changeRole", "remove", "cancelInvitation", "resendInvitation"}

\* The rows and counts the served call found.
PreCounts == GetProjectMemberCounts(last.members)
NowCounts == GetProjectMemberCounts(members)
CallerRow == IF last.ctx.userId \in Users THEN last.members[last.ctx.userId] ELSE NoRole
CtxRole == ProjectUserRole(last.members, last.ctx)
TargetRow == IF last.userId \in Users THEN last.members[last.userId] ELSE NoRole
RowsUntouched == members = last.members /\ invitations = last.invitations

\* The caller acts in the project: signed in, the project active, and an
\* owner or admin row there.
PrivilegedCaller == ContextGuard(last.ctx) = "ok" /\ CallerRow \in {"owner", "admin"}

\* ------------------------------------------------------------------- C1
\* C1: served one at a time, no sequence of invite, changeRole, remove,
\* cancelInvitation, resendInvitation and acceptInvitation calls takes a
\* project with a member and an owner or admin to one without; and a
\* changeRole or remove served in a project with an owner leaves an owner.
C1_FloorsKept ==
    /\ NowCounts.total >= 1
    /\ NowCounts.owners + NowCounts.admins >= 1
    /\ (last.op \in {"changeRole", "remove"} /\ PreCounts.owners >= 1)
           => NowCounts.owners >= 1

\* A changeRole or remove has taken the owner role from a member and left
\* exactly one owner.
C1_Witness ==
    /\ last.op \in {"changeRole", "remove"}
    /\ last.result = "ok"
    /\ TargetRow = "owner"
    /\ members[last.userId] # "owner"
    /\ NowCounts.owners = 1

\* ------------------------------------------------------------------- C2
\* C2: in a project with exactly one owner, changeRole of that owner to
\* admin or member and remove of that owner, called by an owner or admin,
\* fail with BAD_REQUEST; right after a changeRole has made a second member
\* owner, changeRole demoting the original owner succeeds.
C2_SoleOwner ==
    /\ ( /\ last.op \in {"changeRole", "remove"}
         /\ PrivilegedCaller
         /\ PreCounts.owners = 1
         /\ TargetRow = "owner"
         /\ last.op = "changeRole" => last.role \in {"admin", "member"} )
       => (last.result = "BAD_REQUEST" /\ members = last.members)
    /\ ( /\ last.op = "changeRole"
         /\ PrivilegedCaller
         /\ prior.kind = "second_owner"
         /\ TargetRow = "owner" /\ last.userId # prior.user
         /\ last.role \in {"admin", "member"} )
       => (last.result = "ok" /\ members[last.userId] = last.role)

\* The original owner has been demoted right after a second owner was made.
C2_Witness ==
    /\ last.op = "changeRole" /\ last.result = "ok"
    /\ prior.kind = "second_owner"
    /\ TargetRow = "owner" /\ last.userId # prior.user
    /\ members[last.userId] \in {"admin", "member"}
    /\ NowCounts.owners = 1

\* ------------------------------------------------------------------- C3
\* C3: in a project with no owner and exactly one admin, changeRole of that
\* admin to member and remove of that admin fail; the same call succeeds
\* when the project has a second admin or has an owner.
C3_SoleAdmin ==
    /\ ( /\ last.op \in {"changeRole", "remove"}
         /\ PrivilegedCaller
         /\ PreCounts.owners = 0 /\ PreCounts.admins = 1
         /\ TargetRow = "admin"
         /\ last.op = "changeRole" => last.role = "member" )
       => (last.result = "BAD_REQUEST" /\ members = last.members)
    /\ ( /\ last.op \in {"changeRole", "remove"}
         /\ PrivilegedCaller
         /\ PreCounts.owners >= 1 \/ PreCounts.admins >= 2
         /\ TargetRow = "admin"
         /\ last.op = "changeRole" => last.role = "member" )
       => (last.result = "ok" /\ members[last.userId] # "admin")

\* The original admin of an ownerless project has been demoted or removed
\* right after a second admin came to exist.
C3_Witness ==
    /\ last.op \in {"changeRole", "remove"} /\ last.result = "ok"
    /\ prior.kind = "second_admin"
    /\ PreCounts.owners = 0
    /\ TargetRow = "admin" /\ last.userId # prior.user
    /\ members[last.userId] \in {"member", NoRole}

\* ------------------------------------------------------------------- C4
\* C4: remove on a project with exactly one member fails for every caller
\* and every target, and leaves the membership rows as they were.
C4_LastMember ==
    (last.op = "remove" /\ PreCounts.total = 1)
        => (last.result # "ok" /\ members = last.members)

\* The sole member, an owner or admin, has tried to remove itself.
C4_Witness ==
    /\ last.op = "remove" /\ PreCounts.total = 1
    /\ PrivilegedCaller /\ last.userId = last.ctx.userId
    /\ last.result = "BAD_REQUEST"

\* ------------------------------------------------------------------- C5
\* C5: a caller whose role in the active project is member gets FORBIDDEN
\* from invite, changeRole, remove, cancelInvitation and resendInvitation,
\* whatever the input.
C5_MemberForbidden ==
    (last.op \in Governance /\ CtxRole = "member") => last.result = "FORBIDDEN"

\* A member-role caller has tried to cancel an invitation that does not exist.
C5_Witness ==
    /\ last.op = "cancelInvitation" /\ CtxRole = "member"
    /\ last.id = NoInv
    /\ last.result = "FORBIDDEN"

\* ------------------------------------------------------------------- C6
\* C6: whenever invite, resendInvitation or changeRole with role = owner
\* succeeds, the caller's role in the project is owner.
C6_OnlyOwnerGrantsOwner ==
    (last.op \in {"invite", "resendInvitation", "changeRole"}
        /\ last.role = "owner" /\ last.result = "ok")
        => CtxRole = "owner"

\* ------------------------------------------------------------------- C7
\* C7 as stated: an admin caller's invite or changeRole with role = owner
\* is FORBIDDEN for every target, and an owner caller's succeeds.
C7_AsStated ==
    /\ (last.op \in {"invite", "changeRole"} /\ last.role = "owner" /\ CtxRole = "admin")
           => last.result = "FORBIDDEN"
    /\ (last.op \in {"invite", "changeRole"} /\ last.role = "owner" /\ CtxRole = "owner")
           => last.result = "ok"

\* C7 amended: an admin caller's invite with role = owner, and an admin
\* caller's changeRole to owner of a target that is a member of the project,
\* is FORBIDDEN; the same call by an owner caller succeeds; changeRole of a
\* target that is not a member is NOT_FOUND for both.
C7_OwnerGrant ==
    /\ ( /\ last.op \in {"invite", "changeRole"} /\ last.role = "owner"
         /\ CtxRole = "admin"
         /\ last.op = "changeRole" => TargetRow # NoRole )
       => last.result = "FORBIDDEN"
    /\ ( /\ last.op \in {"invite", "changeRole"} /\ last.role = "owner"
         /\ CtxRole = "owner"
         /\ last.op = "changeRole" => TargetRow # NoRole )
       => last.result = "ok"
    /\ ( /\ last.op = "changeRole" /\ last.role = "owner"
         /\ CtxRole \in {"admin", "owner"}
         /\ TargetRow = NoRole )
       => last.result = "NOT_FOUND"

\* An admin caller has been refused the promotion of a member to owner.
C7_Witness ==
    /\ last.op = "changeRole" /\ last.role = "owner"
    /\ CtxRole = "admin" /\ TargetRow = "member"
    /\ last.result = "FORBIDDEN"

\* ------------------------------------------------------------------- C8
\* C8: whenever a governance call succeeds, the caller is a member of the
\* active project with role owner or admin.
C8_OnlyPrivilegedSucceed ==
    (last.op \in Governance /\ last.result = "ok") => CtxRole \in {"owner", "admin"}

\* ------------------------------------------------------------------- C9
\* C9: a governance call that returns a failure has changed neither the
\* membership rows nor the invitation rows.
C9_FailFast ==
    (last.op \in Governance /\ last.result # "ok") => RowsUntouched

\* A removal has been refused by a floor guard, after the caller and target
\* rows were read.
C9_Witness ==
    /\ last.op = "remove" /\ last.result = "BAD_REQUEST"
    /\ PrivilegedCaller /\ TargetRow # NoRole
    /\ RowsUntouched

\* ------------------------------------------------------------------ C10
\* C10: in changeRole and remove, the counts on which the floor guards were
\* evaluated are the project's counts at the moment the mutation is applied,
\* also with another request in flight.
C10_CountsCurrent ==
    \A s \in Slots :
        (reqs[s].pc = "done" /\ reqs[s].result = "ok")
            => reqs[s].counts = reqs[s].applied

\* ------------------------------------------------------------------ C11
\* C11: changeRole and remove called by an owner or admin of the active
\* project on a userId that has no membership row there fail with NOT_FOUND,
\* whatever the requested role and the counts, and leave the rows unchanged.
C11_TargetNotFound ==
    (last.op \in {"changeRole", "remove"} /\ PrivilegedCaller /\ TargetRow = NoRole)
        => (last.result = "NOT_FOUND" /\ members = last.members)

\* The sole member of a project, an admin, has asked to make a non-member
\* owner: the floor and owner-grant guards would refuse, the target lookup
\* answers first.
C11_Witness ==
    /\ last.op = "changeRole" /\ last.role = "owner"
    /\ PrivilegedCaller /\ CallerRow = "admin" /\ PreCounts.total = 1
    /\ TargetRow = NoRole
    /\ last.result = "NOT_FOUND"

\* ------------------------------------------------------------------ C12
\* C12: every procedure called without an active project fails with
\* BAD_REQUEST or FORBIDDEN and changes neither the membership rows nor the
\* invitation rows.
C12_NoActiveProject ==
    (last.op # "none" /\ ~last.ctx.activeProjectId)
        => (last.result \in {"BAD_REQUEST", "FORBIDDEN"} /\ RowsUntouched)

\* ---------------------------------------------- reading the setup page
\* Every required step that precedes stepId in the list is complete.
RequiredBeforeComplete(stepId, steps) ==
    \A i, j \in DOMAIN steps :
        (steps[j].id = stepId /\ i < j /\ steps[i].isRequired) => steps[i].isComplete

RequiredSteps(steps) == {i \in DOMAIN steps : steps[i].isRequired}

\* ------------------------------------------------------------------ C13
\* C13: whenever the page shows the configuration panel of a step, every
\* required step that precedes that step is complete, whether the step was
\* reached by a click on its card, by a ?step= parameter or without one.
C13_DisplayedStepAllowed ==
    (page.loaded /\ Panel(page.step) # NoPanel)
        => RequiredBeforeComplete(Panel(page.step), page.steps)

\* ------------------------------------------------------------------ C14
\* C14: canProceedToStep(stepId) is true exactly when every required step
\* that precedes stepId is complete, and handleStepChange(stepId) makes
\* stepId the current step exactly when it is true and otherwise leaves the
\* current step as it was.
C14_Gate ==
    /\ \A i \in DOMAIN page.steps :
          CanProceedToStep(page.steps[i].id, page.steps)
              <=> RequiredBeforeComplete(page.steps[i].id, page.steps)
    /\ page.call.op = "handleStepChange" =>
          page.step = IF RequiredBeforeComplete(page.call.stepId, page.steps)
                      THEN page.call.stepId
                      ELSE page.call.step

\* The rewards card was clicked while the required design step before it is
\* not complete, and the page stayed on the step it was on.
C14_Witness ==
    /\ page.call.op = "handleStepChange" /\ page.call.stepId = "rewards"
    /\ \E i, j \in DOMAIN page.steps :
          /\ i < j /\ page.steps[i].id = "design" /\ page.steps[j].id = "rewards"
          /\ page.steps[i].isRequired /\ ~page.steps[i].isComplete
    /\ page.call.step # "rewards"
    /\ page.step = page.call.step

\* ------------------------------------------------------------------ C15
\* C15: go-live invoked while a required step is incomplete changes
\* nothing, and invoked once every required step is complete puts the
\* program live.
C15_GoLiveGated ==
    page.call.op = "handleGoLive" =>
        (page.live <=> \A i \in RequiredSteps(page.steps) : page.steps[i].isComplete)

\* ------------------------------------------------------------------ C19
\* C19: pendingSteps is the number of steps that are required and not
\* complete, allRequiredComplete is the conjunction of isComplete over the
\* required steps, allRequiredComplete holds exactly when pendingSteps = 0,
\* and the isComplete flag of a step that is not required changes neither.
C19_Progress ==
    LET steps == page.steps
        Req == RequiredSteps(steps)
    IN
    /\ PendingSteps(steps) = Cardinality({i \in Req : ~steps[i].isComplete})
    /\ AllRequiredComplete(steps) <=> \A i \in Req : steps[i].isComplete
    /\ AllRequiredComplete(steps) <=> PendingSteps(steps) = 0
    /\ \A i \in DOMAIN steps \ Req, b \in BOOLEAN :
          LET other == [steps EXCEPT ![i].isComplete = b] IN
          /\ PendingSteps(other) = PendingSteps(steps)
          /\ AllRequiredComplete(other) = AllRequiredComplete(steps)

\* The page has loaded a program none of whose steps is required and one of
\* whose steps is incomplete: nothing is pending.
C19_Witness ==
    /\ page.loaded /\ Len(page.steps) >= 2
    /\ RequiredSteps(page.steps) = {}
    /\ \E i \in DOMAIN page.steps : ~page.steps[i].isComplete
    /\ PendingSteps(page.steps) = 0 /\ AllRequiredComplete(page.steps)

\* ------------------------------------------------------------------ C16
\* C16: submitForm on a form in which neither side is enabled returns
\* undefined: no reward configuration, no error.
C16_BothDisabled ==
    ( /\ form.result.kind # "none"
      /\ ~form.values.referrerReward.enabled
      /\ ~form.values.refereeReward.enabled )
        => form.result.kind = "undefined"

\* Both sides were switched off with a percentage of 150 left in the
\* referrer side, and the form was submitted.
C16_Witness ==
    /\ ~form.values.referrerReward.enabled /\ ~form.values.refereeReward.enabled
    /\ form.values.referrerReward.valueType = "percentage"
    /\ form.values.referrerReward.value = 150
    /\ form.result.kind = "undefined"

\* ------------------------------------------------------------------ C17
\* C17: with the referrer side enabled and valueType = percentage,
\* submitForm throws whenever the value is outside 1..100 and, the referee
\* side being disabled or in range, returns the configuration whenever the
\* value is inside 1..100.
C17_PercentageRange ==
    LET r == form.values.referrerReward
        e == form.values.refereeReward
        RefereeInRange ==
            \/ ~e.enabled
            \/ /\ e.validityDays \in 1..365
               /\ IF e.valueType = "percentage" THEN e.value \in 1..100 ELSE e.value > 0
    IN
    (form.result.kind # "none" /\ r.enabled /\ r.valueType = "percentage")
        => /\ r.value \notin 1..100 => form.result.kind = "error"
           /\ (r.value \in 1..100 /\ RefereeInRange) => form.result.kind = "config"

\* A referrer percentage of 150 was submitted beside the default referee
\* side, and submitForm threw.
C17_Witness ==
    /\ form.values.referrerReward.enabled
    /\ form.values.referrerReward.valueType = "percentage"
    /\ form.values.referrerReward.value = 150
    /\ form.values.refereeReward = DEFAULTS.refereeReward
    /\ form.result.kind = "error"

\* ------------------------------------------------------------------ C18
\* A request that takes privilege from its target: a removal, or a change
\* of an owner to admin or member, or of an admin to member.
Reducing(r) ==
    \/ r.op = "remove"
    \/ r.op = "changeRole" /\ r.tgt = "owner" /\ r.role \in {"admin", "member"}
    \/ r.op = "changeRole" /\ r.tgt = "admin" /\ r.role = "member"

\* Both requests have read the same counts, so neither mutation was applied
\* before the other request's read; they reduce different targets of role
\* tgt.
BothReadBeforeApply(tgt) ==
    LET a == reqs["r1"]
        b == reqs["r2"]
    IN
    /\ a.pc \in {"apply", "done"} /\ b.pc \in {"apply", "done"}
    /\ a.counts # NoCounts /\ a.counts = b.counts
    /\ a.tgt = tgt /\ b.tgt = tgt /\ a.userId # b.userId
    /\ Reducing(a) /\ Reducing(b)

\* C18: two privilege-reducing requests that both read the counts before
\* either mutation is applied both succeed, and once both are applied the
\* project has no owner (from two owners), or neither owner nor admin (from
\* no owner and two admins).
C18_RaceBreaksFloor ==
    LET a == reqs["r1"]
        b == reqs["r2"]
        Succeed == /\ a.pc = "done" => a.result = "ok"
                   /\ b.pc = "done" => b.result = "ok"
        BothDone == a.pc = "done" /\ b.pc = "done"
    IN
    /\ (BothReadBeforeApply("owner") /\ a.counts.owners = 2)
          => (Succeed /\ (BothDone => NowCounts.owners = 0))
    /\ (BothReadBeforeApply("admin") /\ a.counts.owners = 0 /\ a.counts.admins = 2)
          => (Succeed /\ (BothDone => NowCounts.owners = 0 /\ NowCounts.admins = 0))

\* Two changeRole requests demoting the two owners of a project have both
\* been applied, and the project is left without an owner.
C18_Witness ==
    /\ BothReadBeforeApply("owner")
    /\ reqs["r1"].counts.owners = 2
    /\ reqs["r1"].op = "changeRole" /\ reqs["r2"].op = "changeRole"
    /\ reqs["r1"].result = "ok" /\ reqs["r2"].result = "ok"
    /\ NowCounts.owners = 0

\* ------------------------------------------------------------------ C20
\* C20: in a project with at least two owners, changeRole of an owner to
\* admin or member and remove of an owner succeed for an admin caller as
\* they do for an owner caller: the caller's rank is not compared with the
\* target's.
C20_NoRankComparison ==
    ( /\ last.op \in {"changeRole", "remove"}
      /\ PrivilegedCaller
      /\ PreCounts.owners >= 2
      /\ TargetRow = "owner"
      /\ last.op = "changeRole" => last.role \in {"admin", "member"} )
        => /\ last.result = "ok"
           /\ members[last.userId] = IF last.op = "remove" THEN NoRole ELSE last.role

\* An admin has demoted one of the two owners of a project.
C20_Witness ==
    /\ last.op = "changeRole" /\ last.role \in {"admin", "member"}
    /\ CallerRow = "admin" /\ ContextGuard(last.ctx) = "ok"
    /\ PreCounts.owners = 2 /\ TargetRow = "owner"
    /\ last.result = "ok" /\ NowCounts.owners = 1

\* ------------------------------------------------------------------ C21
\* C21: in a project without an owner, a call made by a member of the
\* project leaves it without an owner; changeRole, invite and
\* resendInvitation with role = owner are refused; and the sole admin of
\* such a project is neither demoted, removed nor promoted.
C21_NoOwnerFromNone ==
    (last.op # "none" /\ PreCounts.owners = 0 /\ CtxRole # NoRole)
        => /\ NowCounts.owners = 0
           /\ (last.op \in {"changeRole", "invite", "resendInvitation"}
                  /\ last.role = "owner")
                 => (last.result # "ok" /\ RowsUntouched)
           /\ ( /\ last.op \in {"changeRole", "remove"}
                /\ PreCounts.admins = 1 /\ TargetRow = "admin"
                /\ last.op = "changeRole" => last.role \in {"member", "owner"} )
                 => (last.result # "ok" /\ members = last.members)

\* The sole admin of a project without an owner, which has other members,
\* has asked to become owner and was refused.
C21_Witness ==
    /\ last.op = "changeRole" /\ last.role = "owner"
    /\ PreCounts.owners = 0 /\ PreCounts.admins = 1 /\ PreCounts.total >= 2
    /\ CtxRole = "admin" /\ last.userId = last.ctx.userId
    /\ last.result = "FORBIDDEN"
    /\ NowCounts.owners = 0

\* ------------------------------------------------------------------ C22
\* A guard of the served call: whether it fails on what the call found, and
\* the failure it gives.
Guard(fails, code, message) == [fails |-> fails, code |-> code, message |-> message]

\* The guards of changeRole and remove in the order stated: context, caller
\* not a member, caller of role member, target not a member, then the floor
\* checks (for remove: last member, last owner, last admin) and, for
\* changeRole, the owner grant last.
GuardsInOrder ==
    LET demotes == last.role # "owner"
        toMember == last.role = "member"
        before ==
            << Guard(~last.ctx.activeProjectId \/ last.ctx.userId = NoUser,
                     "BAD_REQUEST", "No active project or user"),
               Guard(CallerRow = NoRole,
                     "FORBIDDEN", "You are not a member of this project"),
               Guard(CallerRow = "member", "FORBIDDEN",
                     IF last.op = "remove"
                     THEN "You don't have permission to remove members"
                     ELSE "You don't have permission to change roles"),
               Guard(TargetRow = NoRole,
                     "NOT_FOUND", "User is not a member of this project") >>
        ofRemove ==
            << Guard(PreCounts.total = 1,
                     "BAD_REQUEST", "Cannot remove the last member of the project"),
               Guard(TargetRow = "owner" /\ PreCounts.owners = 1, "BAD_REQUEST",
                     "Cannot remove the last owner. Promote another member to owner first."),
               Guard(TargetRow = "admin" /\ PreCounts.admins = 1 /\ PreCounts.owners = 0,
                     "BAD_REQUEST",
                     "Cannot remove the last admin when there are no owners.") >>
        ofChangeRole ==
            << Guard(TargetRow = "owner" /\ PreCounts.owners = 1 /\ demotes, "BAD_REQUEST",
                     "Cannot demote the last owner. Promote another member to owner first."),
               Guard(TargetRow = "admin" /\ PreCounts.admins = 1 /\ PreCounts.owners = 0
                        /\ toMember,
                     "BAD_REQUEST",
                     "Cannot demote the last admin when there are no owners."),
               Guard(last.role = "owner" /\ CallerRow # "owner", "FORBIDDEN",
                     "Only owners can promote members to owner role") >>
    IN before \o (IF last.op = "remove" THEN ofRemove ELSE ofChangeRole)

\* The first guard of the list that fails, or success.
FirstFailing(guards) ==
    LET failing == {i \in DOMAIN guards : guards[i].fails} IN
    IF failing = {} THEN Guard(FALSE, "ok", "none")
    ELSE guards[CHOOSE i \in failing : \A j \in failing : i <= j]

\* C22: the failure a changeRole or remove call returns, code and message,
\* is that of the first guard that fails in the stated order, and the call
\* succeeds when none fails; so the result is determined by the context,
\* the caller's role, the target's role, the requested role and the counts.
C22_FirstFailingGuard ==
    last.op \in {"changeRole", "remove"}
        => /\ last.result = FirstFailing(GuardsInOrder).code
           /\ last.message = FirstFailing(GuardsInOrder).message

\* The sole member of a project, its owner, has asked to remove itself: the
\* last-member and the last-owner guards both fail, and the failure is the
\* last-member one.
C22_Witness ==
    /\ last.op = "remove" /\ PrivilegedCaller
    /\ PreCounts.total = 1 /\ TargetRow = "owner" /\ PreCounts.owners = 1
    /\ last.result = "BAD_REQUEST"
    /\ last.message = "Cannot remove the last member of the project"

\* ------------------------------------------------------------------ C23
\* C23: whenever submitForm returns a reward configuration, a side is
\* enabled, and the configuration has a referrer entry of type cash and a
\* referee entry of type discount that carry the form's current values, also
\* those of a side that is not enabled, and no enabled flag.
C23_ConfigCarriesForm ==
    LET r == form.values.referrerReward
        e == form.values.refereeReward
        c == form.result.config
    IN
    form.result.kind = "config"
        => /\ r.enabled \/ e.enabled
           /\ DOMAIN c = {"referrer", "referee"}
           /\ DOMAIN c.referrer = {"type", "valueType", "value", "currency"}
           /\ DOMAIN c.referee = {"type", "valueType", "value", "currency",
                                  "minPurchaseAmount", "validityDays"}
           /\ c.referrer.type = "cash" /\ c.referee.type = "discount"
           /\ c.referrer.valueType = r.valueType /\ c.referrer.value = r.value
           /\ c.referrer.currency = r.currency
           /\ c.referee.valueType = e.valueType /\ c.referee.value = e.value
           /\ c.referee.currency = e.currency
           /\ c.referee.minPurchaseAmount = e.minPurchaseAmount
           /\ c.referee.validityDays = e.validityDays

\* A configuration was returned for a form whose referrer side is switched
\* off with a percentage of 150 in it, and it carries that value.
C23_Witness ==
    /\ form.result.kind = "config"
    /\ ~form.values.referrerReward.enabled /\ form.values.refereeReward.enabled
    /\ form.values.referrerReward.valueType = "percentage"
    /\ form.values.referrerReward.value = 150
    /\ form.result.config.referrer.value = 150
    /\ form.result.config.referrer.type = "cash"

====
